---- MODULE Spec2Model ----
(***************************************************************************)
(* Session bootstrap hook (src/hooks/bundled/session-bootstrap/handler.ts) *)
(*                                                                         *)
(* One invocation of bootstrapSession on one event, against one memory     *)
(* store.  Strings are sequences of UTF-16 code units; an await is a       *)
(* suspension point and each action is the code that runs between two of   *)
(* them.  While the invocation is suspended inside getRecentMemories the   *)
(* environment (the session-memory writer, an operator) may remove a file  *)
(* that was already listed.                                                *)
(***************************************************************************)
EXTENDS Integers, Sequences, FiniteSets, TLC

VARIABLES
    event,          \* the event object, its context mapping included
    dir,            \* state of <workspace>/memory: "ok", "unlistable", "missing"
    fs,             \* files of the memory store: name -> [len, readable]
    pc,             \* position of the invocation
    workspaceDir,   \* which resolver produced the workspace path
    mdFiles,        \* getRecentMemories: the selected names
    memories,       \* getRecentMemories: entries read so far
    recentMemories, \* handler local
    userProfile,    \* handler local
    activeContext,  \* handler local
    log,            \* records emitted to the subsystem logger
    io,             \* file-system calls made by the invocation
    removed         \* number of files the environment removed

vars == <<event, dir, fs, pc, workspaceDir, mdFiles, memories, recentMemories,
          userProfile, activeContext, log, io, removed>>

----------------------------------------------------------------------------
(* Bounds of the model *)

MaxEntries == 4      \* most entries of the dated universe present at once
MaxUnreadable == 1   \* most files of the store that exist but cannot be read
MaxRemovals == 1     \* most files the environment removes during one call

----------------------------------------------------------------------------
(* Strings *)

\* "2024-01-01-a.md"
F_a == <<50, 48, 50, 52, 45, 48, 49, 45, 48, 49, 45, 97, 46, 109, 100>>
\* "2024-03-15-b.md"
F_b == <<50, 48, 50, 52, 45, 48, 51, 45, 49, 53, 45, 98, 46, 109, 100>>
\* "2024-02-10-c.md"
F_c == <<50, 48, 50, 52, 45, 48, 50, 45, 49, 48, 45, 99, 46, 109, 100>>
\* "2023-12-31-d.md"
F_d == <<50, 48, 50, 51, 45, 49, 50, 45, 51, 49, 45, 100, 46, 109, 100>>
\* "notes.txt"
F_txt == <<110, 111, 116, 101, 115, 46, 116, 120, 116>>
\* "2024-04-01-e.txt"
F_e == <<50, 48, 50, 52, 45, 48, 52, 45, 48, 49, 45, 101, 46, 116, 120, 116>>
\* "jeeves-profile.md"
ProfileName == <<106, 101, 101, 118, 101, 115, 45, 112, 114, 111, 102, 105, 108, 101, 46, 109, 100>>
\* "active-context.md"
ActiveName == <<97, 99, 116, 105, 118, 101, 45, 99, 111, 110, 116, 101, 120, 116, 46, 109, 100>>
\* "## User Profile (Jeeves)"
HeadingProfile == <<35, 35, 32, 85, 115, 101, 114, 32, 80, 114, 111, 102, 105, 108, 101, 32, 40, 74, 101, 101, 118, 101, 115, 41>>
\* "## Active Context"
HeadingActive == <<35, 35, 32, 65, 99, 116, 105, 118, 101, 32, 67, 111, 110, 116, 101, 120, 116>>
\* "## Recent Conversations"
HeadingRecent == <<35, 35, 32, 82, 101, 99, 101, 110, 116, 32, 67, 111, 110, 118, 101, 114, 115, 97, 116, 105, 111, 110, 115>>
\* "### "
EntryPrefix == <<35, 35, 35, 32>>
\* ".md"
MdSuffix == <<46, 109, 100>>
\* "\n"
Newline == <<10>>
\* "-"
Dash == 45

\* null: no string has a negative code unit
Null == <<-1>>

Min(a, b) == IF a < b THEN a ELSE b

IsDigit(c) == c >= 48 /\ c <= 57

----------------------------------------------------------------------------
(* The memory store *)

DatedUniverse == {F_a, F_b, F_c, F_d, F_txt, F_e}

\* lengths of the dated files, one on each side of the entry limit
DatedLen(name) ==
    CASE name = F_a -> 0
      [] name = F_b -> 501
      [] name = F_c -> 500
      [] name = F_d -> 499
      [] OTHER -> 12

Absent == 0 - 1
ProfileLens == {0, 1000, 1001}
ActiveLens == {0, 3, 1001}

Seed(name) ==
    CASE name = F_a -> 1
      [] name = F_b -> 2
      [] name = F_c -> 3
      [] name = F_d -> 4
      [] name = F_txt -> 5
      [] name = F_e -> 6
      [] name = ProfileName -> 7
      [] OTHER -> 8

\* the text of a file: every position has its own code unit, and two files differ
Text(seed, len) == [i \in 1..len |-> 97 + ((i + seed) % 26)]

MkFs(dated, profLen, actLen, unreadable) ==
    LET names == dated \cup (IF profLen = Absent THEN {} ELSE {ProfileName})
                       \cup (IF actLen = Absent THEN {} ELSE {ActiveName})
        len(n) == IF n = ProfileName THEN profLen
                  ELSE IF n = ActiveName THEN actLen ELSE DatedLen(n)
    IN  [n \in names |-> [len |-> len(n), readable |-> n \notin unreadable]]

\* the files that may exist without being readable (a directory of that name,
\* a file without read permission); a profile or an active context that cannot
\* be read is modelled as absent, which fails its read the same way
UnreadableUniverse == {F_a, F_b, F_c, F_d}

Stores ==
    { MkFs(q[1], q[2], q[3], q[4]) :
        q \in
          { r \in (SUBSET DatedUniverse) \X (ProfileLens \cup {Absent})
                    \X (ActiveLens \cup {Absent}) \X (SUBSET UnreadableUniverse) :
                /\ Cardinality(r[1]) <= MaxEntries
                /\ Cardinality(r[4]) <= MaxUnreadable
                /\ r[4] \subseteq r[1] } }

\* the stores without dated entries
SmallStores == { s \in Stores : DOMAIN s \cap DatedUniverse = {} }

CanRead(store, name) == name \in DOMAIN store /\ store[name].readable

\* fs.readFile(path, "utf-8") on a readable file
ReadFile(store, name) == Text(Seed(name), store[name].len)

\* a read that opens its file for writing and so truncates it
StoreAfterReadTruncating(store, name) ==
    [n \in DOMAIN store |-> IF n = name THEN [store[n] EXCEPT !.len = 0] ELSE store[n]]

\* what a read leaves of the store: fs.readdir and fs.readFile write nothing
StoreAfterRead(store, name) == store

RECURSIVE SetToSeq(_)
SetToSeq(S) ==
    IF S = {} THEN <<>>
    ELSE LET x == CHOOSE y \in S : TRUE IN <<x>> \o SetToSeq(S \ {x})

Reverse(s) == [i \in 1..Len(s) |-> s[Len(s) + 1 - i]]

\* fs.readdir returns the names in no particular order
Listings(store) ==
    LET l == SetToSeq(DOMAIN store)
    IN  {l, Reverse(l), SubSeq(l, 2, Len(l)) \o SubSeq(l, 1, Min(1, Len(l)))}

----------------------------------------------------------------------------
(* getRecentMemories: selection *)

EndsWith(f, suffix) ==
    /\ Len(f) >= Len(suffix)
    /\ SubSeq(f, Len(f) - Len(suffix) + 1, Len(f)) = suffix

\* f.match(/^\d{4}-\d{2}-\d{2}/)
MatchesDatePrefix(f) ==
    /\ Len(f) >= 10
    /\ \A i \in {1, 2, 3, 4, 6, 7, 9, 10} : IsDigit(f[i])
    /\ f[5] = Dash
    /\ f[8] = Dash

IsMemoryFile(f) == EndsWith(f, MdSuffix) /\ MatchesDatePrefix(f)

\* order of two strings under the default comparison of Array.prototype.sort
StrLess(a, b) ==
    \/ \E i \in 1..Min(Len(a), Len(b)) :
          /\ a[i] < b[i]
          /\ \A j \in 1..(i - 1) : a[j] = b[j]
    \/ /\ Len(a) < Len(b)
       /\ \A j \in 1..Len(a) : a[j] = b[j]

RECURSIVE Insert(_, _)
Insert(x, sorted) ==
    IF sorted = <<>> THEN <<x>>
    ELSE IF StrLess(x, Head(sorted)) THEN <<x>> \o sorted
    ELSE <<Head(sorted)>> \o Insert(x, Tail(sorted))

RECURSIVE Sort(_)
Sort(s) == IF s = <<>> THEN <<>> ELSE Insert(Head(s), Sort(Tail(s)))

ArraySlice(a, count) == SubSeq(a, 1, Min(count, Len(a)))

\* the selection without .reverse(): the oldest entries first
SelectMdFilesOldest(files, count) ==
    ArraySlice(Sort(SelectSeq(files, IsMemoryFile)), count)

SelectMdFiles(files, count) ==
    ArraySlice(Reverse(Sort(SelectSeq(files, IsMemoryFile))), count)

RECURSIVE IndexOf(_, _, _)
IndexOf(s, c, i) ==
    IF i > Len(s) THEN 0 ELSE IF s[i] = c THEN i ELSE IndexOf(s, c, i + 1)

\* file.split("-")[0]
DateOf(file) ==
    LET k == IndexOf(file, Dash, 1)
    IN  IF k = 0 THEN file ELSE SubSeq(file, 1, k - 1)

Memory(file, content) == [date |-> DateOf(file), content |-> content, filename |-> file]

----------------------------------------------------------------------------
(* bootstrapSession: filter, assembly, publication *)

RecentCount == 3
ProfileLimit == 1000
ActiveLimit == 1000
EntryLimit == 500
PreviewLimit == 200

\* the filter without its test of the action
AdmittedAnyAction(ev) == ~(ev.type # "agent")

Admitted(ev) == ~(ev.type # "agent" \/ ev.action # "bootstrap")

\* a slice that keeps one code unit too many
StrSliceInclusive(s, end) == SubSeq(s, 1, Min(end + 1, Len(s)))

StrSlice(s, end) == SubSeq(s, 1, Min(end, Len(s)))

\* a string | null in a condition
Truthy(s) == s # Null /\ s # <<>>

ProfileParts(profile) ==
    IF Truthy(profile)
    THEN <<HeadingProfile, StrSlice(profile, ProfileLimit), <<>>>>
    ELSE <<>>

ActiveParts(active) ==
    IF Truthy(active)
    THEN <<HeadingActive, StrSlice(active, ActiveLimit), <<>>>>
    ELSE <<>>

EntryParts(mem) == <<EntryPrefix \o mem.filename, StrSlice(mem.content, EntryLimit), <<>>>>

RECURSIVE EntriesParts(_)
EntriesParts(mems) ==
    IF mems = <<>> THEN <<>>
    ELSE EntryParts(Head(mems)) \o EntriesParts(Tail(mems))

RecentParts(mems) ==
    IF Len(mems) > 0 THEN <<HeadingRecent>> \o EntriesParts(mems) ELSE <<>>

\* the assembly with the first two sections pushed in the other order
ContextPartsActiveFirst(profile, active, mems) ==
    ActiveParts(active) \o ProfileParts(profile) \o RecentParts(mems)

ContextParts(profile, active, mems) ==
    ProfileParts(profile) \o ActiveParts(active) \o RecentParts(mems)

RECURSIVE Join(_, _)
Join(parts, sep) ==
    IF parts = <<>> THEN <<>>
    ELSE IF Len(parts) = 1 THEN parts[1]
    ELSE parts[1] \o sep \o Join(Tail(parts), sep)

FullContext(profile, active, mems) == Join(ContextParts(profile, active, mems), Newline)

SetKey(ctx, k, v) == [x \in DOMAIN ctx \cup {k} |-> IF x = k THEN v ELSE ctx[x]]

\* a publication that raises the flag only when some memory was found
PublishIfFound(ctx, fullContext) ==
    SetKey(SetKey(ctx, "memoryContext", fullContext), "hasMemory", fullContext # <<>>)

Publish(ctx, fullContext) ==
    SetKey(SetKey(ctx, "memoryContext", fullContext), "hasMemory", TRUE)

\* event.context || {}
EventContext(ev) == IF "context" \in DOMAIN ev THEN ev.context ELSE [k \in {} |-> TRUE]

\* the event after the writes to `context`: the object of the fallback is not
\* attached to the event
WithContext(ev, c) == IF "context" \in DOMAIN ev THEN [ev EXCEPT !.context = c] ELSE ev

LogDebugStart == [level |-> "debug", msg |-> "Session bootstrap: Loading memory context"]

LogInfo(profile, active, mems) ==
    [level |-> "info", msg |-> "Session bootstrapped with memory context",
     memoriesLoaded |-> Len(mems), hasProfile |-> Truthy(profile),
     hasContext |-> Truthy(active)]

LogPreview(fullContext) ==
    [level |-> "debug", msg |-> "Memory context preview",
     preview |-> StrSlice(fullContext, PreviewLimit)]

LogError(err) ==
    [level |-> "error", msg |-> "Failed to bootstrap session memory", error |-> err]

----------------------------------------------------------------------------
(* Initial states: the event the dispatcher delivers and the memory store *)

\* The dispatcher builds every event with a context mapping (the inbound event
\* contract), so the fallback of EventContext is never taken; an agent:bootstrap
\* context carries the bootstrap files and, when configured, cfg.
Contexts ==
    { [bootstrapFiles |-> "files"],
      [bootstrapFiles |-> "files", cfg |-> "cfg"] }

Events ==
    [type : {"agent", "command"}, action : {"bootstrap", "new"},
     sessionKey : {"agent:main:main"}, context : Contexts]

\* the dated entries matter to an admitted event only, and not to the choice of
\* the workspace resolver: the other events get the stores without them
StoresFor(ev) ==
    IF ev.type = "agent" /\ ev.action = "bootstrap" /\ "cfg" \in DOMAIN ev.context
    THEN Stores
    ELSE SmallStores

EmptyStore == MkFs({}, Absent, Absent, {})

Init ==
    /\ event \in Events
    /\ \/ dir = "ok" /\ fs \in StoresFor(event)
       \/ dir = "unlistable" /\ fs \in SmallStores
       \/ dir = "missing" /\ fs = EmptyStore
    /\ pc = "idle"
    /\ workspaceDir = "unresolved"
    /\ mdFiles = <<>>
    /\ memories = <<>>
    /\ recentMemories = <<>>
    /\ userProfile = Null
    /\ activeContext = Null
    /\ log = <<>>
    /\ io = <<>>
    /\ removed = 0

----------------------------------------------------------------------------
(* bootstrapSession, from the call to the first await or to the return *)

locals == <<workspaceDir, mdFiles, memories, recentMemories, userProfile, activeContext>>

\* the admission check fails: return
BootstrapReject ==
    /\ pc = "idle"
    /\ ~Admitted(event)
    /\ pc' = "returned"
    /\ UNCHANGED <<event, dir, fs, locals, log, io, removed>>

\* the external resolvers the handler calls with this context
Resolvers(ctx) ==
    {"resolveAgentIdFromSessionKey"} \cup
    (IF "cfg" \in DOMAIN ctx THEN {"resolveAgentWorkspaceDir"} ELSE {"resolveStateDir"})

\* a failure boundary that logs the error and throws it again
CaughtRethrown(err) ==
    /\ log' = <<LogDebugStart, LogError(err)>>
    /\ pc' = "raised"

\* the failure boundary: log the error and return normally
Caught(err) ==
    /\ log' = <<LogDebugStart, LogError(err)>>
    /\ pc' = "returned"

\* a resolver throws inside the try block
BootstrapResolveThrow ==
    /\ pc = "idle"
    /\ Admitted(event)
    /\ \E r \in Resolvers(EventContext(event)) : Caught(r)
    /\ UNCHANGED <<event, dir, fs, locals, io, removed>>

\* a start that raises the flag before the first await
BootstrapStartFlagEarly ==
    /\ pc = "idle"
    /\ Admitted(event)
    /\ log' = <<LogDebugStart>>
    /\ workspaceDir' = (IF "cfg" \in DOMAIN event.context THEN "agent" ELSE "default")
    /\ io' = Append(io, [op |-> "readdir"])
    /\ pc' = "readdir"
    /\ event' = [event EXCEPT !.context = SetKey(@, "hasMemory", TRUE)]
    /\ UNCHANGED <<dir, fs, mdFiles, memories, recentMemories, userProfile,
                   activeContext, removed>>

\* the workspace is resolved and getRecentMemories awaits fs.readdir
BootstrapStart ==
    /\ pc = "idle"
    /\ Admitted(event)
    /\ log' = <<LogDebugStart>>
    /\ workspaceDir' = (IF "cfg" \in DOMAIN EventContext(event) THEN "agent" ELSE "default")
    /\ io' = Append(io, [op |-> "readdir"])
    /\ pc' = "readdir"
    /\ UNCHANGED <<event, dir, fs, mdFiles, memories, recentMemories, userProfile,
                   activeContext, removed>>

----------------------------------------------------------------------------
(* getRecentMemories *)

\* the call returns `result` and getUserProfile awaits its read
RecentReturn(result) ==
    /\ recentMemories' = result
    /\ memories' = <<>>
    /\ io' = Append(io, [op |-> "readFile", file |-> ProfileName])
    /\ pc' = "profile"

\* the call goes on to await the read of the next selected file
RecentAwaitRead(file, read) ==
    /\ memories' = read
    /\ io' = Append(io, [op |-> "readFile", file |-> file])
    /\ pc' = "readFile"
    /\ UNCHANGED recentMemories

\* fs.readdir rejects: the catch returns []
ReaddirFail ==
    /\ pc = "readdir"
    /\ dir # "ok"
    /\ RecentReturn(<<>>)
    /\ fs' = StoreAfterRead(fs, <<>>)
    /\ UNCHANGED <<event, dir, workspaceDir, mdFiles, userProfile,
                   activeContext, log, removed>>

\* fs.readdir resolves: filter, sort, reverse, slice, then the first read
ReaddirOk ==
    /\ pc = "readdir"
    /\ dir = "ok"
    /\ \E files \in Listings(fs) :
          /\ mdFiles' = SelectMdFiles(files, RecentCount)
          /\ IF mdFiles' = <<>>
             THEN RecentReturn(<<>>)
             ELSE RecentAwaitRead(mdFiles'[1], <<>>)
    /\ fs' = StoreAfterRead(fs, <<>>)
    /\ UNCHANGED <<event, dir, workspaceDir, userProfile, activeContext, log, removed>>

\* the read of the current file resolves: push, then the next read or the return
ReadFileOk ==
    /\ pc = "readFile"
    /\ LET file == mdFiles[Len(memories) + 1]
           read == Append(memories, Memory(file, ReadFile(fs, file)))
       IN  /\ CanRead(fs, file)
           /\ IF Len(read) = Len(mdFiles)
              THEN RecentReturn(read)
              ELSE RecentAwaitRead(mdFiles[Len(read) + 1], read)
           /\ fs' = StoreAfterRead(fs, file)
    /\ UNCHANGED <<event, dir, workspaceDir, mdFiles, userProfile, activeContext,
                   log, removed>>

\* a catch that returns the entries read before the failure
ReadFileFailKeepsPartial ==
    /\ pc = "readFile"
    /\ LET file == mdFiles[Len(memories) + 1]
       IN  /\ ~CanRead(fs, file)
           /\ RecentReturn(memories)
           /\ fs' = StoreAfterRead(fs, file)
    /\ UNCHANGED <<event, dir, workspaceDir, mdFiles, userProfile,
                   activeContext, log, removed>>

\* a failed read that takes the whole handler to its failure boundary
ReadFileFailAbortsAll ==
    /\ pc = "readFile"
    /\ ~CanRead(fs, mdFiles[Len(memories) + 1])
    /\ log' = log \o <<LogError("readFile")>>
    /\ memories' = <<>>
    /\ pc' = "returned"
    /\ UNCHANGED <<event, dir, fs, workspaceDir, mdFiles, recentMemories, userProfile,
                   activeContext, io, removed>>

\* the read of the current file rejects: the catch returns []
ReadFileFail ==
    /\ pc = "readFile"
    /\ LET file == mdFiles[Len(memories) + 1]
       IN  /\ ~CanRead(fs, file)
           /\ RecentReturn(<<>>)
           /\ fs' = StoreAfterRead(fs, file)
    /\ UNCHANGED <<event, dir, workspaceDir, mdFiles, userProfile,
                   activeContext, log, removed>>

----------------------------------------------------------------------------
(* getUserProfile, getActiveContext and the rest of the handler *)

ReadOrNull(store, name) == IF CanRead(store, name) THEN ReadFile(store, name) ELSE Null

\* getUserProfile returns and getActiveContext awaits its read
GetUserProfile ==
    /\ pc = "profile"
    /\ userProfile' = ReadOrNull(fs, ProfileName)
    /\ io' = Append(io, [op |-> "readFile", file |-> ActiveName])
    /\ fs' = StoreAfterRead(fs, ProfileName)
    /\ pc' = "active"
    /\ UNCHANGED <<event, dir, workspaceDir, mdFiles, memories, recentMemories,
                   activeContext, log, removed>>

\* getActiveContext returns: assemble, publish, log, return
GetActiveContext ==
    /\ pc = "active"
    /\ activeContext' = ReadOrNull(fs, ActiveName)
    /\ LET fullContext == FullContext(userProfile, activeContext', recentMemories)
       IN  /\ event' = WithContext(event, Publish(EventContext(event), fullContext))
           /\ log' = log \o <<LogInfo(userProfile, activeContext', recentMemories),
                              LogPreview(fullContext)>>
    /\ fs' = StoreAfterRead(fs, ActiveName)
    /\ pc' = "returned"
    /\ UNCHANGED <<dir, workspaceDir, mdFiles, memories, recentMemories, userProfile,
                   io, removed>>

----------------------------------------------------------------------------
(* The environment *)

\* a selected file that is still to be read is removed from the store
EnvRemove ==
    /\ pc = "readFile"
    /\ removed < MaxRemovals
    /\ \E i \in (Len(memories) + 1)..Len(mdFiles) :
          /\ mdFiles[i] \in DOMAIN fs
          /\ fs' = [n \in DOMAIN fs \ {mdFiles[i]} |-> fs[n]]
    /\ removed' = removed + 1
    /\ UNCHANGED <<event, dir, pc, locals, log, io>>

Handler ==
    \/ BootstrapReject
    \/ BootstrapResolveThrow
    \/ BootstrapStart
    \/ ReaddirFail
    \/ ReaddirOk
    \/ ReadFileOk
    \/ ReadFileFail
    \/ GetUserProfile
    \/ GetActiveContext

Next == Handler \/ EnvRemove

Spec == Init /\ [][Next]_vars

----------------------------------------------------------------------------
(* Vocabulary of the properties, stated without the operators of the code *)

ctx == event.context

IsBootstrapEvent == event.type = "agent" /\ event.action = "bootstrap"

Published == "memoryContext" \in DOMAIN ctx

Flagged == "hasMemory" \in DOMAIN ctx

ErrorLogged == \E i \in 1..Len(log) : log[i].level = "error"

\* the readers have all returned
ReadersDone == IsBootstrapEvent /\ pc = "returned" /\ ~ErrorLogged

\* the lines of a text: its maximal runs without a line feed
RECURSIVE LinesFrom(_, _, _)
LinesFrom(s, from, feeds) ==
    IF feeds = {} THEN <<SubSeq(s, from, Len(s))>>
    ELSE LET p == CHOOSE i \in feeds : \A j \in feeds : i <= j
         IN  <<SubSeq(s, from, p - 1)>> \o LinesFrom(s, p + 1, feeds \ {p})

Lines(s) == LinesFrom(s, 1, {i \in 1..Len(s) : s[i] = 10})

IsHeadingLine(l) == Len(l) > 0 /\ l[1] = 35

HeadingLines(s) == SelectSeq(Lines(s), IsHeadingLine)

EntryHeading(name) == <<35, 35, 35, 32>> \o name

\* the first n code units of s, and all of s when it is shorter
IsFirstChars(body, s, n) ==
    /\ Len(body) = (IF Len(s) < n THEN Len(s) ELSE n)
    /\ \A i \in 1..Len(body) : body[i] = s[i]

\* four digits, dash, two digits, dash, two digits, anything, ".md"
IsDatedMdName(n) ==
    /\ Len(n) >= 10
    /\ \A i \in {1, 2, 3, 4, 6, 7, 9, 10} : n[i] \in 48..57
    /\ n[5] = 45 /\ n[8] = 45
    /\ Len(n) >= 3
    /\ n[Len(n) - 2] = 46 /\ n[Len(n) - 1] = 109 /\ n[Len(n)] = 100

DatedMdNames == {n \in DOMAIN fs : IsDatedMdName(n)}

FileNames(mems) == [i \in 1..Len(mems) |-> mems[i].filename]

SeqRange(q) == {q[i] : i \in 1..Len(q)}

\* names in descending order, none outside S, none of S above a returned one left out
IsNewestOf(names, S, n) ==
    /\ SeqRange(names) \subseteq S
    /\ \A i, j \in 1..Len(names) : i < j => StrLess(names[j], names[i])
    /\ \A m \in S \ SeqRange(names) : \A i \in 1..Len(names) : StrLess(m, names[i])
    /\ Len(names) = (IF Cardinality(S) < n THEN Cardinality(S) ELSE n)

----------------------------------------------------------------------------
(* Properties *)

\* C1: an agent:bootstrap invocation never raises to its caller, whatever fails
\* after the admission check; it is on its way or it has returned normally.
C1_NeverRaises ==
    IsBootstrapEvent =>
        /\ pc \in {"idle", "readdir", "readFile", "profile", "active", "returned"}
        /\ pc = "readFile" => Len(memories) < Len(mdFiles)
        /\ ErrorLogged => pc = "returned"

C1_Witness ==
    /\ IsBootstrapEvent
    /\ pc = "returned"
    /\ ErrorLogged

\* C2: on an event that is not agent:bootstrap no step lists the directory, reads
\* a file, logs a record or changes the event and its context.
C2_RejectedNoEffect ==
    [][~IsBootstrapEvent => UNCHANGED <<event, io, log, fs, dir>>]_vars

C2_Witness ==
    /\ ~IsBootstrapEvent
    /\ pc = "returned"
    /\ io = <<>> /\ log = <<>>

\* C3: after an agent:bootstrap invocation that met no internal exception the
\* context holds hasMemory = true and memoryContext = the assembled string, and
\* with the memory directory missing memoryContext is the empty string.
C3_PublishedOnSuccess ==
    ReadersDone =>
        /\ Published /\ Flagged
        /\ ctx["hasMemory"] = TRUE
        /\ ctx["memoryContext"] = FullContext(userProfile, activeContext, recentMemories)
        /\ dir = "missing" => ctx["memoryContext"] = <<>>

C3_Witness ==
    /\ ReadersDone
    /\ dir = "missing"
    /\ Flagged /\ ctx["hasMemory"] = TRUE
    /\ Published /\ ctx["memoryContext"] = <<>>

\* C4: the selection is the dated .md names of the listing in descending order cut
\* to the first 3, and it is what getRecentMemories returns when every selected
\* file is readable.
C4_RecentSelection ==
    (IsBootstrapEvent /\ dir = "ok" /\ removed = 0
        /\ pc \in {"readFile", "profile", "active", "returned"} /\ ~ErrorLogged) =>
        /\ IsNewestOf(mdFiles, DatedMdNames, 3)
        /\ (pc # "readFile" /\ \A i \in 1..Len(mdFiles) : fs[mdFiles[i]].readable)
              => IsNewestOf(FileNames(recentMemories), DatedMdNames, 3)

C4_Witness ==
    /\ ReadersDone
    /\ Cardinality(DatedMdNames) = 4
    /\ Len(recentMemories) = 3
    /\ FileNames(recentMemories) = <<F_b, F_c, F_a>>

\* C5 as stated: a section is rendered if and only if the read of its source
\* succeeded (refuted: a source that is read as the empty string renders nothing).
C5_SectionsIffReadSucceeded ==
    (ReadersDone /\ Published) =>
        HeadingLines(ctx["memoryContext"]) =
            (IF userProfile # Null THEN <<HeadingProfile>> ELSE <<>>)
            \o (IF activeContext # Null THEN <<HeadingActive>> ELSE <<>>)
            \o (IF Len(recentMemories) >= 1 THEN <<HeadingRecent>> ELSE <<>>)
            \o [i \in 1..Len(recentMemories) |-> EntryHeading(recentMemories[i].filename)]

\* C5 (amended): the headings of memoryContext are, in this order, the profile
\* heading iff the profile was read and is not empty, the active-context heading
\* iff the active context was read and is not empty, and the recent-memories
\* heading with one entry heading per loaded entry iff an entry was loaded.
C5_SectionsInOrder ==
    (ReadersDone /\ Published) =>
        HeadingLines(ctx["memoryContext"]) =
            (IF userProfile # Null /\ Len(userProfile) > 0 THEN <<HeadingProfile>> ELSE <<>>)
            \o (IF activeContext # Null /\ Len(activeContext) > 0 THEN <<HeadingActive>> ELSE <<>>)
            \o (IF Len(recentMemories) >= 1 THEN <<HeadingRecent>> ELSE <<>>)
            \o [i \in 1..Len(recentMemories) |-> EntryHeading(recentMemories[i].filename)]

C5_Witness ==
    /\ ReadersDone /\ Published
    /\ userProfile = <<>>
    /\ activeContext # Null /\ Len(activeContext) > 0
    /\ Len(recentMemories) = 2
    /\ Len(HeadingLines(ctx["memoryContext"])) = 4

\* C6: in memoryContext the line under the profile heading is the first
\* min(length, 1000) code units of the profile, the line under the active-context
\* heading the first min(length, 1000) of the active context, and the line under
\* each entry heading the first min(length, 500) of that entry.
C6_BodiesTruncated ==
    (ReadersDone /\ Published) =>
        LET ls == Lines(ctx["memoryContext"])
        IN  \A k \in 1..Len(ls) :
              /\ ls[k] = HeadingProfile =>
                    k < Len(ls) /\ IsFirstChars(ls[k + 1], userProfile, 1000)
              /\ ls[k] = HeadingActive =>
                    k < Len(ls) /\ IsFirstChars(ls[k + 1], activeContext, 1000)
              /\ \A i \in 1..Len(recentMemories) :
                    ls[k] = EntryHeading(recentMemories[i].filename) =>
                        k < Len(ls) /\ IsFirstChars(ls[k + 1], recentMemories[i].content, 500)

C6_Witness ==
    /\ ReadersDone /\ Published
    /\ Len(userProfile) = 1001
    /\ Len(activeContext) = 1001
    /\ \E i \in 1..Len(recentMemories) : Len(recentMemories[i].content) = 501
    /\ \E i \in 1..Len(recentMemories) : Len(recentMemories[i].content) = 499
    /\ Len(HeadingLines(ctx["memoryContext"])) = 6

Readable(n) == n \in DOMAIN fs /\ fs[n].readable

\* the workspace was resolved, the readers were called and the handler is back
ReadersCalled == IsBootstrapEvent /\ pc = "returned" /\ workspaceDir # "unresolved"

UnreadableDated == {n \in DatedMdNames : ~fs[n].readable}

\* each reader returns what its own source gives, whatever the others met
ReadersIndependent ==
    /\ userProfile = (IF Readable(ProfileName) THEN ReadFile(fs, ProfileName) ELSE Null)
    /\ activeContext = (IF Readable(ActiveName) THEN ReadFile(fs, ActiveName) ELSE Null)
    /\ recentMemories # <<>> <=>
          (dir = "ok" /\ mdFiles # <<>> /\ \A i \in 1..Len(mdFiles) : Readable(mdFiles[i]))

PublishedFromReadable ==
    /\ Published
    /\ ctx["memoryContext"] # <<>>
    /\ HeadingProfile \in SeqRange(HeadingLines(ctx["memoryContext"]))
    /\ HeadingActive \in SeqRange(HeadingLines(ctx["memoryContext"]))
    /\ \A n \in UnreadableDated :
          EntryHeading(n) \notin SeqRange(HeadingLines(ctx["memoryContext"]))

\* C7 as stated: with the profile and the active context readable and a dated file
\* unreadable, memoryContext is not empty and holds both sections (refuted: both
\* files readable and empty give the empty memoryContext).
C7_ReadableSourcesPublished ==
    ReadersCalled =>
        /\ ReadersIndependent
        /\ (Readable(ProfileName) /\ Readable(ActiveName) /\ UnreadableDated # {})
              => PublishedFromReadable

\* C7 (amended): each reader returns what its own source gives, and with the
\* profile and the active context readable and not empty and a dated file
\* unreadable, memoryContext is not empty, holds the profile and active-context
\* sections and has no entry of the unreadable file.
C7_NonEmptySourcesPublished ==
    ReadersCalled =>
        /\ ReadersIndependent
        /\ (Readable(ProfileName) /\ fs[ProfileName].len > 0
              /\ Readable(ActiveName) /\ fs[ActiveName].len > 0
              /\ UnreadableDated # {})
              => PublishedFromReadable

C7_Witness ==
    /\ ReadersCalled
    /\ Readable(ProfileName) /\ fs[ProfileName].len > 0
    /\ Readable(ActiveName) /\ fs[ActiveName].len > 0
    /\ \E i \in 1..Len(mdFiles) : mdFiles[i] \in UnreadableDated
    /\ recentMemories = <<>>
    /\ Len(HeadingLines(ctx["memoryContext"])) = 2

\* C8: no step of the invocation creates, deletes or modifies a file of the memory
\* store: the store changes only when the environment removes a file.
C8_StoreReadOnly ==
    [][removed' = removed => (fs' = fs /\ dir' = dir)]_vars

C8_Witness ==
    /\ ReadersDone
    /\ removed = 0
    /\ Len(io) = 6
    /\ Len(recentMemories) = 3

\* C9: when the listing fails or the read of a selected file fails, also of a file
\* removed after it was listed, getRecentMemories returns the empty list, nothing
\* read before the failure is kept, no recent-memories section is rendered and the
\* handler has not raised.
C9_RecentAllOrNothing ==
    (IsBootstrapEvent /\ pc \in {"profile", "active", "returned", "raised"}
        /\ workspaceDir # "unresolved"
        /\ (dir # "ok" \/ \E i \in 1..Len(mdFiles) : ~Readable(mdFiles[i]))) =>
        /\ pc # "raised"
        /\ recentMemories = <<>>
        /\ memories = <<>>
        /\ Published =>
              /\ HeadingRecent \notin SeqRange(HeadingLines(ctx["memoryContext"]))
              /\ \A i \in 1..Len(mdFiles) :
                    EntryHeading(mdFiles[i]) \notin SeqRange(HeadingLines(ctx["memoryContext"]))

\* two files were read before the read of the third, removed after the listing, failed
C9_Witness ==
    /\ ReadersDone
    /\ removed = 1
    /\ Len(mdFiles) = 3
    /\ mdFiles[3] \notin DOMAIN fs
    /\ Len(io) = 6
    /\ recentMemories = <<>>
    /\ Published

OwnKeys == {"memoryContext", "hasMemory"}

\* C10: memoryContext and hasMemory enter the context in one step, after the last
\* suspension point and never after a caught exception, and no step changes,
\* adds or removes any other key of the context or any other field of the event.
C10_PublishedTogether ==
    [][ /\ ("hasMemory" \in DOMAIN event'.context) <=> ("memoryContext" \in DOMAIN event'.context)
        /\ (pc' \in {"readdir", "readFile", "profile", "active"} \/ ErrorLogged')
              => DOMAIN event'.context \cap OwnKeys = {}
        /\ DOMAIN event'.context \ OwnKeys = DOMAIN event.context \ OwnKeys
        /\ \A k \in DOMAIN event.context \ OwnKeys : event'.context[k] = event.context[k]
        /\ event'.type = event.type
        /\ event'.action = event.action
        /\ event'.sessionKey = event.sessionKey
      ]_vars

C10_Witness ==
    /\ ReadersDone
    /\ Published /\ Flagged
    /\ "cfg" \in DOMAIN ctx /\ ctx["cfg"] = "cfg"
    /\ ctx["bootstrapFiles"] = "files"
    /\ removed = 1

====
